---- MODULE Spec2Model ----
(***************************************************************************)
(* A model of userconf: the scanner (scan.py), the backtracking parser     *)
(* (parse.py), the AST node store with its merge paths (ast.py) and the    *)
(* cached-instance entry point loads (__init__.py).                        *)
(*                                                                         *)
(* Source text is a sequence of one-character strings; positions are the   *)
(* 0-based cursors of the code, so the character at cursor p is src[p+1].  *)
(***************************************************************************)
EXTENDS Integers, Sequences, FiniteSets, TLC

VARIABLES
    source,     \* Scanner._source
    spos,       \* Scanner._pos
    sexists,    \* 'scanner' in loads.__dict__ (a Scanner has been constructed)
    tokens,     \* Parser._tokens
    ppos,       \* Parser._pos
    pexists,    \* 'parser' in loads.__dict__ (a Parser has been constructed)
    heap,       \* the AST nodes allocated by the last parse and by later processing
    last,       \* what the last operation was and what its caller observed
    prev,       \* the operation before the last one
    nmut        \* steps of later processing (constructions, value replacements) since the last parse

vars == <<source, spos, sexists, tokens, ppos, pexists, heap, last, prev, nmut>>

----------------------------------------------------------------------------
(* Characters *)

SP == " "
TAB == "\t"
CR == "\r"
LF == "\n"
DQ == "\""
BS == "\\"
GT == ">"
SEMI == ";"

\* Python's None where the code returns "a string or None" (no source string
\* equals it: its one element is not a single character)
None == <<"None">>

\* Let(v, LAMBDA x : e) is "x = v; e": v is named once and used as x in e
Let(v, F(_)) == F(v)

\* scan.py:5-7
WHITESPACE == << <<SP>>, <<TAB>> >>
NEWLINE == << <<CR, LF>>, <<LF>> >>
RESERVED == << <<"{">>, <<"}">>, <<"[">>, <<"]">>, <<",">>, <<SEMI>> >>

----------------------------------------------------------------------------
(* Token (scan.py:26-65) *)

is_string(kind) ==
    kind \in {"UNQUOTED_STRING", "QUOTED_STRING", "MULTILINE_STRING"}

RECURSIVE _escape_string(_)
\* str.replace('\\n', '\n'): left to right, non-overlapping
_escape_string(spelling) ==
    IF Len(spelling) = 0 THEN <<>>
    ELSE IF Len(spelling) >= 2 /\ spelling[1] = BS /\ spelling[2] = "n"
         THEN <<LF>> \o _escape_string(SubSeq(spelling, 3, Len(spelling)))
         ELSE <<spelling[1]>> \o _escape_string(Tail(spelling))

Token(kind, leading_newline, spelling) ==
    [kind |-> kind,
     spelling |-> IF is_string(kind) THEN _escape_string(spelling) ELSE spelling,
     leading_newline |-> leading_newline]

----------------------------------------------------------------------------
(* Scanner (scan.py:70-304).  Every helper takes the source and the cursor *)
(* and returns the new cursor with what the method returns.                *)

at_end(src, pos) == pos = Len(src)

_peek(src, pos, count) ==
    IF pos + count > Len(src) THEN None ELSE SubSeq(src, pos + 1, pos + count)

_test(src, pos, what) == _peek(src, pos, Len(what)) = what

_test_any(src, pos, testers) ==
    \E i \in 1..Len(testers) : _test(src, pos, testers[i])

\* the accepted string, or None for False; the cursor advances by its length
_accept(src, pos, what) ==
    IF _test(src, pos, what)
    THEN [pos |-> pos + Len(what), accepted |-> what]
    ELSE [pos |-> pos, accepted |-> None]

RECURSIVE _accept_any_from(_, _, _, _)
_accept_any_from(src, pos, acceptors, i) ==
    IF i > Len(acceptors) THEN [pos |-> pos, accepted |-> None]
    ELSE Let(_accept(src, pos, acceptors[i]), LAMBDA a :
             IF a.accepted # None THEN a
             ELSE _accept_any_from(src, pos, acceptors, i + 1))

_accept_any(src, pos, acceptors) == _accept_any_from(src, pos, acceptors, 1)

RECURSIVE _skip_loop(_, _, _, _)
\* while not self.at_end and self._accept_any(what): skipped = True
_skip_loop(src, pos, what, skipped) ==
    IF at_end(src, pos) THEN [pos |-> pos, skipped |-> skipped]
    ELSE Let(_accept_any(src, pos, what), LAMBDA a :
             IF a.accepted = None THEN [pos |-> pos, skipped |-> skipped]
             ELSE _skip_loop(src, a.pos, what, TRUE))

_skip_whitespace(src, pos) == _skip_loop(src, pos, WHITESPACE, FALSE)

_skip_newline(src, pos) == _skip_loop(src, pos, NEWLINE, FALSE)

RECURSIVE _to_end_of_line(_, _)
\* while not self.at_end and not self._accept_any(NEWLINE): self._advance()
\* (the newline that ends the loop is consumed by the loop's own test)
_to_end_of_line(src, pos) ==
    IF at_end(src, pos) THEN pos
    ELSE Let(_accept_any(src, pos, NEWLINE), LAMBDA a :
             IF a.accepted # None THEN a.pos
             ELSE _to_end_of_line(src, pos + 1))

_skip_comment(src, pos) ==
    Let(_accept(src, pos, <<SEMI>>), LAMBDA a :
        IF a.accepted = None THEN [pos |-> pos, skipped |-> FALSE]
        ELSE [pos |-> _to_end_of_line(src, a.pos), skipped |-> TRUE])

\* one round of line 172 / lines 178-180
_skip_round(src, pos) ==
    Let(_skip_whitespace(src, pos), LAMBDA ws :
    Let(_skip_newline(src, ws.pos), LAMBDA nl :
    Let(_skip_comment(src, nl.pos), LAMBDA cmt :
        [pos |-> cmt.pos, ws |-> ws.skipped, nl |-> nl.skipped,
         cmt |-> cmt.skipped])))

RECURSIVE _ignore_loop(_, _, _)
_ignore_loop(src, r, leading_newline) ==
    IF ~(r.ws \/ r.nl \/ r.cmt)
    THEN [pos |-> r.pos, leading_newline |-> leading_newline]
    ELSE Let(_skip_round(src, r.pos), LAMBDA n :
             _ignore_loop(src, n, leading_newline \/ n.nl \/ n.cmt))

_ignore_leading(src, pos) ==
    Let(_skip_round(src, pos), LAMBDA r :
        IF ~(r.ws \/ r.nl \/ r.cmt)
        THEN [pos |-> r.pos, leading_newline |-> FALSE]
        ELSE _ignore_loop(src, r, r.nl \/ r.cmt))

\* What a _scan_* method hands back: a Token ("token"), None ("none") or a
\* raised ScanError ("ScanError"), with the cursor it leaves behind.
ScanNone(pos) == [status |-> "none", tok |-> Token("NONE", FALSE, None), pos |-> pos]
ScanRaise(pos) == [status |-> "ScanError", tok |-> Token("NONE", FALSE, None), pos |-> pos]
ScanToken(tok, pos) == [status |-> "token", tok |-> tok, pos |-> pos]

RECURSIVE _quoted_loop(_, _, _, _)
\* scan.py:194-206
_quoted_loop(src, pos, string, leading_newline) ==
    IF at_end(src, pos)
    THEN ScanToken(Token("QUOTED_STRING", leading_newline, string), pos)
    ELSE Let(_accept(src, pos, <<DQ>>), LAMBDA q :
             IF q.accepted # None
             THEN ScanToken(Token("QUOTED_STRING", leading_newline, string), q.pos)
             ELSE IF at_end(src, pos) THEN ScanRaise(pos)
             ELSE IF _test_any(src, pos, NEWLINE) THEN ScanRaise(pos)
             ELSE IF _test(src, pos, <<BS, DQ>>)
                  THEN _quoted_loop(src, pos + 2, string \o <<DQ>>, leading_newline)
                  ELSE _quoted_loop(src, pos + 1, string \o _peek(src, pos, 1),
                                    leading_newline))

_scan_quoted_string(src, pos, leading_newline) ==
    Let(_accept(src, pos, <<DQ>>), LAMBDA q :
        IF q.accepted = None THEN ScanNone(pos)
        ELSE _quoted_loop(src, q.pos, <<>>, leading_newline))

RECURSIVE _line_loop(_, _, _)
\* scan.py:213-217
_line_loop(src, pos, string) ==
    IF at_end(src, pos) THEN [line |-> string, pos |-> pos]
    ELSE Let(_accept_any(src, pos, NEWLINE), LAMBDA a :
             IF a.accepted # None THEN [line |-> string, pos |-> a.pos]
             ELSE _line_loop(src, pos + 1, string \o _peek(src, pos, 1)))

_scan_multiline_string_line(src, pos) ==
    Let(_accept(src, pos, <<GT>>), LAMBDA g :
        IF g.accepted = None THEN [line |-> None, pos |-> pos]
        ELSE _line_loop(src, g.pos, <<>>))

RECURSIVE _multiline_loop(_, _, _)
\* scan.py:228-231
_multiline_loop(src, l, multiline) ==
    IF l.line = None THEN [text |-> multiline, pos |-> l.pos]
    ELSE _multiline_loop(src,
             _scan_multiline_string_line(src, _skip_whitespace(src, l.pos).pos),
             multiline \o l.line)

_scan_multiline_string(src, pos, leading_newline) ==
    Let(_scan_multiline_string_line(src, pos), LAMBDA l :
        IF l.line = None THEN ScanNone(pos)
        ELSE Let(_multiline_loop(src, l, <<>>), LAMBDA m :
                 ScanToken(Token("MULTILINE_STRING", leading_newline, m.text), m.pos)))

\* TERMINATORS as it would be had RESERVED been left out of line 240
TERMINATORS_without_reserved == WHITESPACE \o NEWLINE

\* scan.py:240
TERMINATORS == WHITESPACE \o NEWLINE \o RESERVED

RECURSIVE _unquoted_loop(_, _, _)
\* scan.py:243-245
_unquoted_loop(src, pos, string) ==
    IF at_end(src, pos) \/ _test_any(src, pos, TERMINATORS)
    THEN [string |-> string, pos |-> pos]
    ELSE _unquoted_loop(src, pos + 1, string \o _peek(src, pos, 1))

_scan_unquoted_string(src, pos, leading_newline) ==
    Let(_unquoted_loop(src, pos, <<>>), LAMBDA u :
        IF Len(u.string) = 0 THEN ScanNone(u.pos)
        ELSE ScanToken(Token("UNQUOTED_STRING", leading_newline, u.string), u.pos))

\* scan.py:268-277: the single-character tokens, in the order they are tried
PUNCTUATION ==
    << <<"{", "BRACE_OPEN">>, <<"}", "BRACE_CLOSE">>, <<"[", "BRACK_OPEN">>,
       <<"]", "BRACK_CLOSE">>, <<",", "COMMA">> >>

\* scan.py:258-288; status "eof" is the None of line 266
scan_one(src, pos) ==
    Let(_ignore_leading(src, pos), LAMBDA ig :
        IF at_end(src, ig.pos)
        THEN [status |-> "eof", tok |-> Token("NONE", FALSE, None), pos |-> ig.pos]
        ELSE IF \E i \in 1..Len(PUNCTUATION) : _test(src, ig.pos, <<PUNCTUATION[i][1]>>)
        THEN Let(CHOOSE j \in 1..Len(PUNCTUATION) :
                     _test(src, ig.pos, <<PUNCTUATION[j][1]>>), LAMBDA i :
                 ScanToken(Token(PUNCTUATION[i][2], ig.leading_newline, None),
                           ig.pos + 1))
        ELSE
        Let(_scan_quoted_string(src, ig.pos, ig.leading_newline), LAMBDA q :
            IF q.status # "none" THEN q
            ELSE
        Let(_scan_multiline_string(src, q.pos, ig.leading_newline), LAMBDA m :
            IF m.status # "none" THEN m
            ELSE
        Let(_scan_unquoted_string(src, m.pos, ig.leading_newline), LAMBDA u :
            IF u.status # "none" THEN u
            ELSE ScanRaise(u.pos)))))

\* Token.__bool__ as it would be if it were the truth of the spelling
Token_bool_of_spelling(tok) == tok.spelling # None /\ tok.spelling # <<>>

\* Token.__bool__ (scan.py:52-53)
Token_bool(tok) == TRUE

RECURSIVE _scan_all_loop(_, _, _)
\* scan.py:294-298: `while token := self.scan_one()` goes on while scan_one
\* returns something true, so it ends on None and would end on a false Token
_scan_all_loop(src, pos, toks) ==
    Let(scan_one(src, pos), LAMBDA t :
        IF t.status = "ScanError"
        THEN [status |-> "ScanError", tokens |-> <<>>, pos |-> t.pos]
        ELSE IF t.status = "token" /\ Token_bool(t.tok)
             THEN _scan_all_loop(src, t.pos, Append(toks, t.tok))
             ELSE [status |-> "ok", tokens |-> toks, pos |-> t.pos])

scan_all(src, pos) == _scan_all_loop(src, pos, <<>>)

----------------------------------------------------------------------------
(* AST nodes (ast.py:5-156).  A node is a record in the node store `heap`, *)
(* named by its index; parent 0 is Python's None.                          *)

NodeTypes == {"String", "Record", "Array", "Document", "RecordItem"}

\* AbstractNode.__init__ / String.__init__ / Node.__init__
NewNode(h, type, data) ==
    Append(h, [type |-> type, parent |-> 0, children |-> <<>>, data |-> data])

\* the child_types each constructor passes to Node.__init__ (ast.py:104-136);
\* RecordItem passes none, so any AbstractNode is accepted
child_types(type) ==
    CASE type = "Document" -> {"RecordItem"}
      [] type = "Record" -> {"RecordItem"}
      [] type = "Array" -> {"Record", "String", "Array"}
      [] OTHER -> NodeTypes

\* Node.add_child after its assertion (ast.py:111-112)
add_child(h, p, c) ==
    [h EXCEPT ![p].children = Append(@, c), ![c].parent = p]

RECURSIVE add_children(_, _, _)
\* "for x in content.data: node.add_child(x)"; ok is FALSE when the assertion
\* of ast.py:110 fails
add_children(h, p, cs) ==
    IF Len(cs) = 0 THEN [ok |-> TRUE, heap |-> h]
    ELSE IF h[cs[1]].type \notin child_types(h[p].type) THEN [ok |-> FALSE, heap |-> h]
    ELSE add_children(add_child(h, p, cs[1]), p, Tail(cs))

ValueTypes == {"Record", "Array", "String"}

\* RecordItem.__init__ (ast.py:135-140)
RecordItem(h, key, value) ==
    IF h[key].type # "String" \/ h[value].type \notin ValueTypes
    THEN [ok |-> FALSE, heap |-> h, id |-> 0]
    ELSE [ok |-> TRUE,
          heap |-> add_child(add_child(NewNode(h, "RecordItem", None),
                                       Len(h) + 1, key),
                             Len(h) + 1, value),
          id |-> Len(h) + 1]

\* RecordItem.key / RecordItem.value (ast.py:142-148)
key_of(h, item) == h[item].children[1]
value_of(h, item) == h[item].children[2]

\* RecordItem.value setter after its assertion (ast.py:156)
set_value(h, item, value) ==
    [h EXCEPT ![item].children = [@ EXCEPT ![2] = value]]

----------------------------------------------------------------------------
(* Parser (parse.py).  The parser state threaded through the productions  *)
(* is st = [pos, heap, obs, calls, loops]: the cursor, the node store, and *)
(* histories that the parser never reads.  obs holds <<"item_key", p>>    *)
(* when parse_record_item recognized its key at cursor p, and              *)
(* <<"comma_between_items", p>> when a content loop accepted the comma at  *)
(* cursor p as separator and the item after it was recognized; calls holds *)
(* one entry per call of a decorated production, loops one entry per       *)
(* iteration of a content loop that did not break.                         *)
(* A production body hands back status "ret" (a value that is not False), *)
(* "false" (False) or the exception it raised; the decorated production   *)
(* hands back "ok" (a true ParseResult), "fail" (a false one) or the      *)
(* exception.  data is a sequence of node indices.                        *)

Ret(data, st) == [status |-> "ret", data |-> data, st |-> st]
RetFalse(st) == [status |-> "false", data |-> <<>>, st |-> st]
Raise(exc, st) == [status |-> exc, data |-> <<>>, st |-> st]

Raised(r) == r.status \notin {"ret", "false", "ok", "fail"}

\* the history entry of one call of a decorated production: where the cursor
\* was at entry, how the call ended, and where the cursor was then
Called(name, entry, r) ==
    [r EXCEPT !.st.calls = @ \cup
        {[name |-> name, entry |-> entry, status |-> r.status, exit |-> r.st.pos]}]

\* the history entry of one iteration of a content loop that did not break:
\* the cursor before the separator check and after the item, and whether the
\* separator was a comma
Iteration(name, entry, sep, exit) ==
    [name |-> name, entry |-> entry, comma |-> sep.comma, exit |-> exit]

\* the decorator as it would be without the self._restore(state) of line 28
production_without_restore(state, r) ==
    IF r.status = "ret" THEN [r EXCEPT !.status = "ok"]
    ELSE IF r.status = "false"
         THEN [status |-> "fail", data |-> <<>>, st |-> r.st]
         ELSE r

\* parse.py:20-31 with _save / _restore (41-45): `state` is the cursor saved
\* before the body ran
production(state, r) ==
    IF r.status = "ret" THEN [r EXCEPT !.status = "ok"]
    ELSE IF r.status = "false"
         THEN [status |-> "fail", data |-> <<>>, st |-> [r.st EXCEPT !.pos = state]]
         ELSE r

Parser_at_end(toks, pos) == pos = Len(toks)

cur(toks, pos) == toks[pos + 1]

\* parse.py:47-56
Parser_accept(toks, pos, kind) ==
    IF Parser_at_end(toks, pos) THEN [ok |-> FALSE, pos |-> pos]
    ELSE IF cur(toks, pos).kind = kind THEN [ok |-> TRUE, pos |-> pos + 1]
    ELSE [ok |-> FALSE, pos |-> pos]

\* parse.py:58-65; ok is FALSE when ParseError is raised
_expect(toks, pos, kind) ==
    IF Parser_at_end(toks, pos) THEN [ok |-> FALSE, pos |-> pos]
    ELSE Parser_accept(toks, pos, kind)

\* the separator check as it would be if a leading-newline token were
\* consumed like a comma
_accept_item_separator_eating_newline(toks, pos) ==
    IF pos = Len(toks) THEN [ok |-> FALSE, pos |-> pos, comma |-> FALSE]
    ELSE IF toks[pos + 1].kind = "COMMA"
         THEN [ok |-> TRUE, pos |-> pos + 1, comma |-> TRUE]
         ELSE IF toks[pos + 1].leading_newline
              THEN [ok |-> TRUE, pos |-> pos + 1, comma |-> FALSE]
              ELSE [ok |-> FALSE, pos |-> pos, comma |-> FALSE]

\* parse.py:67-70; comma tells which half of the `or` answered
_accept_item_separator(toks, pos) ==
    IF Parser_at_end(toks, pos) THEN [ok |-> FALSE, pos |-> pos, comma |-> FALSE]
    ELSE Let(Parser_accept(toks, pos, "COMMA"), LAMBDA c :
             IF c.ok THEN [ok |-> TRUE, pos |-> c.pos, comma |-> TRUE]
             ELSE [ok |-> cur(toks, pos).leading_newline, pos |-> pos,
                   comma |-> FALSE])

\* "return ast.String(tok.spelling)" for the token just accepted
StringOf(toks, st, newpos) ==
    Ret(<<Len(st.heap) + 1>>,
        [st EXCEPT !.pos = newpos,
                   !.heap = NewNode(@, "String", cur(toks, st.pos).spelling)])

RECURSIVE accept_string(_, _, _, _)
\* the if/elif chain of _accept calls over the string kinds, in order
accept_string(toks, st, kinds, i) ==
    IF i > Len(kinds) THEN RetFalse(st)
    ELSE Let(Parser_accept(toks, st.pos, kinds[i]), LAMBDA a :
             IF a.ok THEN StringOf(toks, st, a.pos)
             ELSE accept_string(toks, st, kinds, i + 1))

\* parse_record_key as it would be without the elif of lines 153-154
parse_record_key_quoted_only(toks, st) ==
    Called("parse_record_key", st.pos, production(st.pos,
        accept_string(toks, st, <<"QUOTED_STRING">>, 1)))

\* parse.py:146-156
parse_record_key(toks, st) ==
    Called("parse_record_key", st.pos, production(st.pos,
        accept_string(toks, st, <<"QUOTED_STRING", "UNQUOTED_STRING">>, 1)))

RECURSIVE parse_value(_, _)
RECURSIVE parse_record(_, _)
RECURSIVE parse_record_content(_, _)
RECURSIVE record_content_loop(_, _, _)
RECURSIVE parse_record_item(_, _)
RECURSIVE parse_array(_, _)
RECURSIVE parse_array_content(_, _)
RECURSIVE array_content_loop(_, _, _)

\* parse.py:130-144
parse_record_item(toks, st) ==
    Called("parse_record_item", st.pos, production(st.pos,
        Let(parse_record_key(toks, st), LAMBDA key :
            IF key.status # "ok" THEN RetFalse(key.st)
            ELSE
        Let(parse_value(toks,
                [key.st EXCEPT !.obs = @ \cup {<<"item_key", st.pos>>}]), LAMBDA value :
            IF Raised(value) THEN value
            ELSE IF value.status # "ok" THEN RetFalse(value.st)
            ELSE
        Let(RecordItem(value.st.heap, key.data[1], value.data[1]), LAMBDA ri :
            IF ~ri.ok THEN Raise("AssertionError", value.st)
            ELSE Ret(<<ri.id>>, [value.st EXCEPT !.heap = ri.heap]))))))

\* parse.py:122-128
record_content_loop(toks, st, items) ==
    Let(_accept_item_separator(toks, st.pos), LAMBDA sep :
        IF ~sep.ok THEN Ret(items, st)
        ELSE
    Let(parse_record_item(toks, [st EXCEPT !.pos = sep.pos]), LAMBDA item :
        IF Raised(item) THEN item
        ELSE IF item.status # "ok" THEN Ret(items, item.st)
        ELSE record_content_loop(toks,
                 [item.st EXCEPT !.obs = @ \cup
                     (IF sep.comma THEN {<<"comma_between_items", st.pos>>}
                      ELSE {}),
                                 !.loops = @ \cup
                     {Iteration("parse_record_content", st.pos, sep, item.st.pos)}],
                 items \o item.data)))

\* parse.py:111-128
parse_record_content(toks, st) ==
    Called("parse_record_content", st.pos, production(st.pos,
        Let(parse_record_item(toks, st), LAMBDA item :
            IF Raised(item) THEN item
            ELSE IF item.status # "ok" THEN Ret(<<>>, item.st)
            ELSE record_content_loop(toks, item.st, item.data))))

\* the tail shared by parse_record and parse_array: _expect the closing
\* token, construct the node, add the children (parse.py:103-109, 184-190)
close_node(toks, content, closing, type) ==
    Let(_expect(toks, content.st.pos, closing), LAMBDA e :
        IF ~e.ok THEN Raise("ParseError", content.st)
        ELSE
    Let(NewNode(content.st.heap, type, None), LAMBDA h :
    Let(add_children(h, Len(h), content.data), LAMBDA a :
        IF ~a.ok THEN Raise("AssertionError", [content.st EXCEPT !.pos = e.pos])
        ELSE Ret(<<Len(h)>>, [content.st EXCEPT !.pos = e.pos, !.heap = a.heap]))))

\* parse.py:94-109
parse_record(toks, st) ==
    Called("parse_record", st.pos, production(st.pos,
        Let(Parser_accept(toks, st.pos, "BRACE_OPEN"), LAMBDA b :
            IF ~b.ok THEN RetFalse(st)
            ELSE
        Let(parse_record_content(toks, [st EXCEPT !.pos = b.pos]),
            LAMBDA record_content :
            IF Raised(record_content) THEN record_content
            ELSE close_node(toks, record_content, "BRACE_CLOSE", "Record")))))

\* parse.py:158-174
parse_value(toks, st) ==
    Called("parse_value", st.pos, production(st.pos,
        Let(accept_string(toks, st,
                <<"QUOTED_STRING", "UNQUOTED_STRING", "MULTILINE_STRING">>, 1),
            LAMBDA s :
            IF s.status = "ret" THEN s
            ELSE
        Let(parse_record(toks, st), LAMBDA record :
            IF Raised(record) THEN record
            ELSE IF record.status = "ok" THEN Ret(record.data, record.st)
            ELSE
        Let(parse_array(toks, record.st), LAMBDA array :
            IF Raised(array) THEN array
            ELSE IF array.status = "ok" THEN Ret(array.data, array.st)
            ELSE RetFalse(array.st))))))

\* parse.py:176-190
parse_array(toks, st) ==
    Called("parse_array", st.pos, production(st.pos,
        Let(Parser_accept(toks, st.pos, "BRACK_OPEN"), LAMBDA b :
            IF ~b.ok THEN RetFalse(st)
            ELSE
        Let(parse_array_content(toks, [st EXCEPT !.pos = b.pos]),
            LAMBDA array_content :
            IF Raised(array_content) THEN array_content
            ELSE close_node(toks, array_content, "BRACK_CLOSE", "Array")))))

\* parse.py:202-208
array_content_loop(toks, st, values) ==
    Let(_accept_item_separator(toks, st.pos), LAMBDA sep :
        IF ~sep.ok THEN Ret(values, st)
        ELSE
    Let(parse_value(toks, [st EXCEPT !.pos = sep.pos]), LAMBDA value :
        IF Raised(value) THEN value
        ELSE IF value.status # "ok" THEN Ret(values, value.st)
        ELSE array_content_loop(toks,
                 [value.st EXCEPT !.obs = @ \cup
                     (IF sep.comma THEN {<<"comma_between_items", st.pos>>}
                      ELSE {}),
                                  !.loops = @ \cup
                     {Iteration("parse_array_content", st.pos, sep, value.st.pos)}],
                 values \o value.data)))

\* parse.py:192-208
parse_array_content(toks, st) ==
    Called("parse_array_content", st.pos, production(st.pos,
        Let(parse_value(toks, st), LAMBDA value :
            IF Raised(value) THEN value
            ELSE IF value.status # "ok" THEN Ret(<<>>, value.st)
            ELSE array_content_loop(toks, value.st, value.data))))

\* parse as it would be without the `and self.at_end` of line 85
parse_without_end_check(toks, st) ==
    Called("parse", st.pos, production(st.pos,
        Let(parse_record_content(toks, st), LAMBDA record_content :
            IF Raised(record_content) THEN record_content
            ELSE
        Let(NewNode(record_content.st.heap, "Document", None), LAMBDA h :
        Let(add_children(h, Len(h), record_content.data), LAMBDA a :
            Ret(<<Len(h)>>, [record_content.st EXCEPT !.heap = a.heap]))))))

\* parse.py:78-92.  Line 92 reads self.cur to build its message, which is an
\* IndexError when the cursor is at the end.
parse(toks, st) ==
    Called("parse", st.pos, production(st.pos,
        Let(parse_record_content(toks, st), LAMBDA record_content :
            IF Raised(record_content) THEN record_content
            ELSE IF record_content.status = "ok"
                    /\ Parser_at_end(toks, record_content.st.pos)
            THEN Let(NewNode(record_content.st.heap, "Document", None), LAMBDA h :
                 Let(add_children(h, Len(h), record_content.data), LAMBDA a :
                     IF ~a.ok THEN Raise("AssertionError", record_content.st)
                     ELSE Ret(<<Len(h)>>, [record_content.st EXCEPT !.heap = a.heap])))
            ELSE IF Parser_at_end(toks, record_content.st.pos)
                 THEN Raise("IndexError", record_content.st)
                 ELSE Raise("ParseError", record_content.st))))

\* a parse started at cursor pos with an empty node store
parse_from(toks, pos) == parse(toks, [pos |-> pos, heap |-> <<>>, obs |-> {}, calls |-> {}, loops |-> {}])

----------------------------------------------------------------------------
(* Merge paths (ast.py:9-58) *)

RECURSIVE _ancestors(_, _)
\* nearest first
_ancestors(h, n) ==
    IF h[n].parent = 0 THEN <<>>
    ELSE <<h[n].parent>> \o _ancestors(h, h[n].parent)

_is_transitive_array_element(h, n) ==
    \E i \in 1..Len(_ancestors(h, n)) : h[_ancestors(h, n)[i]].type = "Array"

\* ast.py:37 evaluates self.parent.value: an AttributeError when parent is
\* None, an IndexError when the parent has fewer than two children
has_path_raises(h, n) ==
    /\ h[n].type = "String"
    /\ ~_is_transitive_array_element(h, n)
    /\ \/ h[n].parent = 0
       \/ Len(h[h[n].parent].children) < 2

\* ast.py:27-40, where it does not raise
has_path(h, n) ==
    IF h[n].type \notin {"String", "Record", "Array"}
       \/ _is_transitive_array_element(h, n)
    THEN FALSE
    ELSE IF h[n].type = "String" /\ n # value_of(h, h[n].parent)
    THEN FALSE
    ELSE TRUE

RECURSIVE path_walk(_, _, _)
\* ast.py:50-56: the keys appended while walking up from `node`
path_walk(h, node, acc) ==
    IF h[node].parent = 0 THEN acc
    ELSE path_walk(h, h[node].parent,
                   IF h[h[node].parent].type = "RecordItem"
                   THEN Append(acc, h[key_of(h, h[node].parent)].data)
                   ELSE acc)

RECURSIVE reversed(_)
reversed(s) == IF Len(s) = 0 THEN <<>> ELSE Append(reversed(Tail(s)), s[1])

\* path as it would be without the reversed() of line 58
path_not_reversed(h, n) ==
    IF ~has_path(h, n) THEN [defined |-> FALSE, keys |-> <<>>]
    ELSE [defined |-> TRUE, keys |-> path_walk(h, n, <<>>)]

\* ast.py:42-58; defined is FALSE for the None of line 48
path(h, n) ==
    IF ~has_path(h, n) THEN [defined |-> FALSE, keys |-> <<>>]
    ELSE [defined |-> TRUE, keys |-> reversed(path_walk(h, n, <<>>))]

RECURSIVE iter_preorder(_, _)
RECURSIVE iter_preorder_children(_, _, _)
\* ast.py:68-76
iter_preorder(h, root) ==
    IF h[root].type = "String" THEN <<root>>
    ELSE <<root>> \o iter_preorder_children(h, h[root].children, 1)

iter_preorder_children(h, children, i) ==
    IF i > Len(children) THEN <<>>
    ELSE iter_preorder(h, children[i]) \o iter_preorder_children(h, children, i + 1)

RECURSIVE Struct(_, _)
\* the shape of the subtree at n, without node identities: what "structurally
\* identical" compares
Struct(h, n) ==
    <<h[n].type, h[n].data,
      [i \in 1..Len(h[n].children) |-> Struct(h, h[n].children[i])]>>

----------------------------------------------------------------------------
(* Instances and their operations *)

\* Scanner.__init__ (scan.py:71-75)
Scanner_init(src) == [source |-> src, pos |-> 0]

\* Scanner.reset as it would be without the self._pos = 0 of line 256
Scanner_reset_keeping_pos(self, src) == [source |-> src, pos |-> self.pos]

\* Scanner.reset (scan.py:252-256)
Scanner_reset(self, src) == [source |-> src, pos |-> 0]

\* Parser.__init__ (parse.py:37-39)
Parser_init(toks) == [tokens |-> toks, pos |-> 0]

\* Parser.reset (parse.py:72-76)
Parser_reset(self, toks) == [tokens |-> toks, pos |-> 0]

\* What the caller of Parser.parse observes: the exception, or the ParseResult
\* with its Document (as a shape) and where the cursor was left
ParseOutcome(toks, r) ==
    [status |-> r.status,
     doc |-> IF r.status = "ok" THEN Struct(r.st.heap, r.data[1]) ELSE <<>>,
     pos |-> r.st.pos,
     ntokens |-> Len(toks),
     obs |-> r.st.obs,
     calls |-> r.st.calls,
     loops |-> r.st.loops]

\* What the caller of scan_all observes
ScanAllOutcome(r) == [status |-> r.status, tokens |-> r.tokens]

NoOutcome == [status |-> "none"]

ScanOne ==
    /\ sexists
    /\ Let(scan_one(source, spos), LAMBDA r :
           /\ spos' = r.pos
           /\ last' = [op |-> "scan_one", from |-> spos, status |-> r.status,
                       tok |-> r.tok])
    /\ prev' = last.op
    /\ UNCHANGED <<source, sexists, tokens, ppos, pexists, heap, nmut>>

ScanAll ==
    /\ sexists
    /\ Let(scan_all(source, spos), LAMBDA r :
           /\ spos' = r.pos
           /\ last' = [op |-> "scan_all", from |-> spos, out |-> ScanAllOutcome(r)])
    /\ prev' = last.op
    /\ UNCHANGED <<source, sexists, tokens, ppos, pexists, heap, nmut>>

Parse ==
    /\ pexists
    /\ Let(parse_from(tokens, ppos), LAMBDA r :
           /\ ppos' = r.st.pos
           /\ heap' = r.st.heap
           /\ last' = [op |-> "parse", from |-> ppos, out |-> ParseOutcome(tokens, r),
                       root |-> IF r.status = "ok" THEN r.data[1] ELSE 0])
    /\ prev' = last.op
    /\ nmut' = 0
    /\ UNCHANGED <<source, spos, sexists, tokens, pexists>>

----------------------------------------------------------------------------
(* Scanning every short source text *)

\* longest source text scanned
MaxSrcLen == 4

ScanAlphabet == {DQ, BS, LF, CR, SP, ",", SEMI, GT, "a", "n"}

RECURSIVE SeqsUpTo(_, _)
\* every sequence over S of length at most n
SeqsUpTo(S, n) ==
    IF n = 0 THEN {<<>>}
    ELSE Let(SeqsUpTo(S, n - 1), LAMBDA shorter :
             shorter \cup {Append(s, x) : s \in {t \in shorter : Len(t) = n - 1},
                                          x \in S})

InitScan ==
    /\ source \in SeqsUpTo(ScanAlphabet, MaxSrcLen)
    /\ spos = Scanner_init(source).pos
    /\ sexists = TRUE
    /\ tokens = <<>>
    /\ ppos = 0
    /\ pexists = FALSE
    /\ heap = <<>>
    /\ last = [op |-> "init"]
    /\ prev = "none"
    /\ nmut = 0

NextScan == ScanOne \/ ScanAll

SpecScan == InitScan /\ [][NextScan]_vars

\* A source that opens a quoted string at its first character and ends before
\* an unescaped closing quote, with no raw newline in between.  (The scanner
\* reads backslash-quote as an escape wherever it stands, so a quote is
\* unescaped exactly when no backslash precedes it.)
UnterminatedQuoted(src) ==
    /\ Len(src) >= 1
    /\ src[1] = DQ
    /\ \A i \in 2..Len(src) :
          /\ src[i] # LF
          /\ src[i] = DQ => src[i - 1] = BS

\* C1: when a quoted string is opened and the input ends before an unescaped
\* closing quote (no raw newline in between), scan_one and scan_all raise
\* ScanError and return no token for that string.
C1_UnterminatedQuotedRaises ==
    UnterminatedQuoted(source) =>
        /\ (last.op = "scan_one" /\ last.from = 0) => last.status = "ScanError"
        /\ (last.op = "scan_all" /\ last.from = 0) => last.out.status = "ScanError"

\* the characters the format description lists as ending an unquoted string
ListedTerminators == {SP, TAB, CR, LF, "{", "}", "[", "]", ",", SEMI}

UnquotedReturned ==
    /\ last.op = "scan_one"
    /\ last.status = "token"
    /\ last.tok.kind = "UNQUOTED_STRING"

\* C10 as stated: every UNQUOTED_STRING token is a non-empty run whose text
\* contains no space, tab, CR, LF or reserved character, and the character
\* after the run (if any) is one of those.
C10_UnquotedTextHasNoListedTerminator ==
    UnquotedReturned =>
        /\ Len(last.tok.spelling) >= 1
        /\ \A i \in 1..Len(last.tok.spelling) :
              last.tok.spelling[i] \notin ListedTerminators
        /\ spos < Len(source) => source[spos + 1] \in ListedTerminators

\* the character at 1-based index i of src ends an unquoted run: a space, a
\* tab, LF, a reserved character, or a CR that is immediately followed by LF
EndsRun(src, i) ==
    \/ src[i] \in ListedTerminators \ {CR}
    \/ src[i] = CR /\ i < Len(src) /\ src[i + 1] = LF

\* C10 (amended): every UNQUOTED_STRING token comes from a non-empty maximal
\* run of source characters none of which ends a run (a CR not followed by LF
\* is an ordinary character of the run); the token's text is that run with
\* each backslash-n pair resolved to LF; the character after the run, if any,
\* ends a run.
C10_UnquotedIsMaximalRun ==
    UnquotedReturned =>
        \E start \in last.from..(spos - 1) :
            /\ \A i \in (start + 1)..spos : ~EndsRun(source, i)
            /\ last.tok.spelling = _escape_string(SubSeq(source, start + 1, spos))
            /\ spos < Len(source) => EndsRun(source, spos + 1)

\* an unquoted token that holds a lone CR and an LF made by backslash-n, and
\* that is followed by more input
C10_Witness ==
    /\ UnquotedReturned
    /\ \E i \in 1..Len(last.tok.spelling) : last.tok.spelling[i] = CR
    /\ \E i \in 1..Len(last.tok.spelling) : last.tok.spelling[i] = LF
    /\ spos < Len(source)

----------------------------------------------------------------------------
(* Parsing every short token sequence *)

\* longest token sequence parsed
MaxToks == 5

ParseAlphabet ==
    {Token("BRACE_OPEN", FALSE, None), Token("BRACE_CLOSE", FALSE, None),
     Token("BRACK_OPEN", FALSE, None), Token("BRACK_CLOSE", FALSE, None),
     Token("COMMA", FALSE, None),
     Token("UNQUOTED_STRING", FALSE, <<"a">>),
     Token("QUOTED_STRING", TRUE, <<"b">>),
     Token("MULTILINE_STRING", FALSE, <<"c">>)}

InitParse ==
    /\ tokens \in SeqsUpTo(ParseAlphabet, MaxToks)
    /\ ppos = Parser_init(tokens).pos
    /\ pexists = TRUE
    /\ source = <<>>
    /\ spos = 0
    /\ sexists = FALSE
    /\ heap = <<>>
    /\ last = [op |-> "init"]
    /\ prev = "none"
    /\ nmut = 0

NextParse == Parse

SpecParse == InitParse /\ [][NextParse]_vars

ParsedFromStart == last.op = "parse" /\ last.from = 0

\* tokens with the comma at cursor i removed and leading_newline set on the
\* token that followed it
CommaToNewline(toks, i) ==
    SubSeq(toks, 1, i)
        \o <<[toks[i + 2] EXCEPT !.leading_newline = TRUE]>>
        \o SubSeq(toks, i + 3, Len(toks))

CommasBetweenItems == {e[2] : e \in {x \in last.out.obs : x[1] = "comma_between_items"}}

\* C6: replacing a comma that stands between two items by leading_newline on
\* the token after it gives the same parse outcome (the same AST shape, or a
\* syntax error both times); and a separator accepted through the flag
\* leaves the cursor where it was, one accepted as a comma advances it by one.
C6_CommaEquivalentToNewline ==
    /\ ParsedFromStart =>
          \A i \in CommasBetweenItems :
              Let(CommaToNewline(tokens, i), LAMBDA other :
              Let(ParseOutcome(other, parse_from(other, 0)), LAMBDA o :
                  /\ o.status = last.out.status
                  /\ o.doc = last.out.doc))
    /\ \A p \in 0..(Len(tokens) - 1) :
          Let(_accept_item_separator(tokens, p), LAMBDA sep :
              sep.ok =>
                  IF tokens[p + 1].kind = "COMMA" THEN sep.pos = p + 1
                  ELSE sep.pos = p /\ tokens[p + 1].leading_newline)

\* a successful parse in which a comma separated two items
C6_Witness ==
    /\ ParsedFromStart
    /\ last.out.status = "ok"
    /\ CommasBetweenItems # {}

ItemKeys == {e[2] : e \in {x \in last.out.obs : x[1] = "item_key"}}

\* the token after cursor p is missing or cannot start a value
NoValueAfter(toks, p) ==
    \/ p + 1 = Len(toks)
    \/ toks[p + 2].kind \in {"BRACE_CLOSE", "BRACK_CLOSE", "COMMA"}

\* C7: when a record key at an item position is followed by `}`, `]`, `,` or
\* the end of input, parse raises ParseError and returns no Document.
C7_MissingValueIsSyntaxError ==
    ParsedFromStart =>
        \A p \in ItemKeys :
            (tokens[p + 1].kind \in {"QUOTED_STRING", "UNQUOTED_STRING"}
             /\ NoValueAfter(tokens, p))
                => last.out.status = "ParseError"

\* the key of a later item, directly followed by a closing brace
C7_Witness ==
    /\ ParsedFromStart
    /\ \E p \in ItemKeys :
          /\ p >= 2
          /\ p + 1 < Len(tokens)
          /\ tokens[p + 2].kind = "BRACE_CLOSE"
    /\ last.out.status = "ParseError"

\* C8: parse either returns a successful ParseResult carrying a Document with
\* the cursor at the end of the tokens, or raises ParseError; nothing else.
C8_DocumentAtEndOrParseError ==
    last.op = "parse" =>
        \/ /\ last.out.status = "ok"
           /\ last.out.doc[1] = "Document"
           /\ last.out.pos = Len(tokens)
           /\ ppos = Len(tokens)
        \/ last.out.status = "ParseError"

\* a Document returned for a nested input, and the cursor at its end
C8_Witness ==
    /\ ParsedFromStart
    /\ last.out.status = "ok"
    /\ Len(tokens) = MaxToks
    /\ ppos = Len(tokens)
    /\ \E i \in 1..Len(tokens) : tokens[i].kind = "BRACE_OPEN"

\* the kinds of token with which a committing production begins
LeadingKinds(name) ==
    CASE name = "parse_record" -> {"BRACE_OPEN"}
      [] name = "parse_array" -> {"BRACK_OPEN"}
      [] name = "parse_record_item" -> {"QUOTED_STRING", "UNQUOTED_STRING"}
      [] OTHER -> {}

\* the call c began at a token that its production recognizes as its leading
\* token
LeadingRecognized(toks, c) ==
    /\ c.entry < Len(toks)
    /\ toks[c.entry + 1].kind \in LeadingKinds(c.name)

\* C11: a call of parse_record, parse_record_item or parse_array that has
\* recognized its leading token either succeeds or raises ParseError; it
\* never returns a failure ParseResult
C11_CommittedProductionNeverFails ==
    last.op = "parse" =>
        \A c \in last.out.calls :
            LeadingRecognized(tokens, c) => c.status \in {"ok", "ParseError"}

\* the productions that consume at least one token when they succeed
Consuming ==
    {"parse_record", "parse_record_item", "parse_record_key", "parse_value",
     "parse_array"}

\* C12: a production call that returns a failure ParseResult leaves the
\* cursor where it was at entry; one that returns success leaves it at or
\* after its value at entry, and strictly after for record, record_item,
\* record_key, value and array; parse never changes the token list
C12_BacktrackingRestoresCursor ==
    /\ [](last.op = "parse" =>
            \A c \in last.out.calls :
                /\ c.status = "fail" => c.exit = c.entry
                /\ c.status = "ok" =>
                      /\ c.exit >= c.entry
                      /\ c.name \in Consuming => c.exit > c.entry)
    /\ [][last'.op = "parse" => tokens' = tokens]_vars

\* parse_record_item failed at a later item after its key had moved the
\* cursor, and the cursor is back where the call began
C12_Witness ==
    /\ last.op = "parse"
    /\ \E c \in last.out.calls :
          /\ c.name = "parse_record_item"
          /\ c.status = "fail"
          /\ LeadingRecognized(tokens, c)
          /\ c.entry > 0
          /\ c.exit = c.entry

----------------------------------------------------------------------------
(* ASTs of nested inputs, and later processing of them *)

\* longest token sequence parsed into an AST
MaxPathToks == 6

\* most steps of later processing applied to one AST
MaxLater == 2

\* every token on a line of its own, so that successive items need no comma
PathAlphabet ==
    {Token("BRACE_OPEN", TRUE, None), Token("BRACE_CLOSE", TRUE, None),
     Token("BRACK_OPEN", TRUE, None), Token("BRACK_CLOSE", TRUE, None),
     Token("UNQUOTED_STRING", TRUE, <<"a">>),
     Token("QUOTED_STRING", TRUE, <<"b">>)}

AstProduced == last.op \in {"parse", "construct", "set_value"} /\ last.root # 0

\* later processing constructs a node: ast.String(data)
ConstructString ==
    /\ AstProduced
    /\ nmut < MaxLater
    /\ heap' = NewNode(heap, "String", <<"x">>)
    /\ last' = [op |-> "construct", root |-> last.root]
    /\ prev' = last.op
    /\ nmut' = nmut + 1
    /\ UNCHANGED <<source, spos, sexists, tokens, ppos, pexists>>

\* item.value = value (ast.py:153-156), the replacement being a node that is
\* not attached anywhere yet
SetValue ==
    /\ AstProduced
    /\ nmut < MaxLater
    /\ \E item \in 1..Len(heap), value \in 1..Len(heap) :
          /\ heap[item].type = "RecordItem"
          /\ heap[value].type \in ValueTypes
          /\ heap[value].parent = 0
          /\ heap' = set_value(heap, item, value)
          /\ last' = [op |-> "set_value", root |-> last.root, item |-> item,
                      value |-> value]
    /\ prev' = last.op
    /\ nmut' = nmut + 1
    /\ UNCHANGED <<source, spos, sexists, tokens, ppos, pexists>>

InitAst ==
    /\ tokens \in SeqsUpTo(PathAlphabet, MaxPathToks)
    /\ ppos = Parser_init(tokens).pos
    /\ pexists = TRUE
    /\ source = <<>>
    /\ spos = 0
    /\ sexists = FALSE
    /\ heap = <<>>
    /\ last = [op |-> "init"]
    /\ prev = "none"
    /\ nmut = 0

NextAst == Parse \/ ConstructString \/ SetValue

SpecAst == InitAst /\ [][NextAst]_vars

Nodes == 1..Len(heap)

\* C2: for every node p and every child c in p.children, c.parent is p, and
\* every node whose parent is p is in p.children -- after any constructions,
\* add_child calls of the parser and RecordItem.value replacements.
C2_ParentsMatchChildren ==
    \A p \in Nodes :
        /\ \A i \in 1..Len(heap[p].children) : heap[heap[p].children[i]].parent = p
        /\ \A n \in Nodes :
              heap[n].parent = p => \E i \in 1..Len(heap[p].children) :
                                        heap[p].children[i] = n

RECURSIVE Descendants(_, _)
\* the nodes below a, found through the child lists alone
Descendants(h, a) ==
    UNION {{h[a].children[i]} \cup Descendants(h, h[a].children[i]) :
              i \in 1..Len(h[a].children)}

RECURSIVE KeysDown(_, _, _)
\* the key strings of the RecordItems met on the way from a down to n (a
\* itself included, n excluded), found through the child lists alone
KeysDown(h, a, n) ==
    IF a = n THEN <<>>
    ELSE (IF h[a].type = "RecordItem" THEN <<h[h[a].children[1]].data>> ELSE <<>>)
             \o KeysDown(h,
                    CHOOSE x \in {h[a].children[i] : i \in 1..Len(h[a].children)} :
                        n \in {x} \cup Descendants(h, x),
                    n)

\* n is a Document, a RecordItem, the key String of a RecordItem, or has an
\* Array above it
HasNoPath(h, n) ==
    \/ h[n].type \in {"Document", "RecordItem"}
    \/ \E p \in 1..Len(h) : h[p].type = "RecordItem" /\ h[p].children[1] = n
    \/ \E a \in 1..Len(h) : h[a].type = "Array" /\ n \in Descendants(h, a)

ParsedDocument == last.op = "parse" /\ last.out.status = "ok"

\* C3: in an AST produced by parse, a node has no path (path is None,
\* has_path is False) exactly when it is a Document, a RecordItem, the key
\* String of a RecordItem, or below an Array; otherwise its path is the keys
\* of all its RecordItem ancestors from the root down.
C3_PathIsKeysFromRoot ==
    ParsedDocument =>
        \A n \in {last.root} \cup Descendants(heap, last.root) :
            /\ ~has_path_raises(heap, n)
            /\ has_path(heap, n) = ~HasNoPath(heap, n)
            /\ path(heap, n).defined = ~HasNoPath(heap, n)
            /\ ~HasNoPath(heap, n) =>
                   path(heap, n).keys = KeysDown(heap, last.root, n)

\* an Array that is the value of the top-level key a has path (a,), and an
\* element nested deeper than directly below it has none
C3_Witness ==
    /\ ParsedDocument
    /\ \E arr \in Nodes :
          /\ heap[arr].type = "Array"
          /\ path(heap, arr) = [defined |-> TRUE, keys |-> << <<"a">> >>]
          /\ \E n \in Descendants(heap, arr) :
                heap[n].parent # arr /\ ~path(heap, n).defined

----------------------------------------------------------------------------
(* loads and the cached instances it reuses (__init__.py:4-17) *)

\* `a b`
Src_bare == <<"a", SP, "b">>

\* lists of well-formed items: none, `a b`, `a b,c d`, `a {b c}`, `a [b]`
Bodies ==
    {<<>>, Src_bare, <<"a", SP, "b", ",", "c", SP, "d">>,
     <<"a", SP, "{", "b", SP, "c", "}">>, <<"a", SP, "[", "b", "]">>}

\* a body enclosed in braces as the whole input, and as the value of a key k
Braced(body) == <<"{">> \o body \o <<"}">>
Nested(body) == <<"k", SP>> \o Braced(body)

\* `"a` newline `b"`: a raw newline inside a quoted string
Src_newline_in_quotes == <<DQ, "a", LF, "b", DQ>>

\* one value of each kind: quoted, unquoted, multi-line, record, array
ValueTexts == {<<DQ, "x", DQ>>, <<"x">>, <<GT, "x">>, <<"{", "}">>, <<"[", "]">>}

\* two items on consecutive lines, no comma: in a document body, in a record,
\* in an array; the second item starts with the token c
InDocument(v) == <<"a", SP>> \o v \o <<LF, "c", SP, "d">>
InRecord(v) == <<"k", SP, "{", "a", SP>> \o v \o <<LF, "c", SP, "d", "}">>
InArray(v) == <<"k", SP, "[">> \o v \o <<LF, "c", "]">>

NewlineSeparated ==
    {InDocument(v) : v \in ValueTexts} \cup {InRecord(v) : v \in ValueTexts}
        \cup {InArray(v) : v \in ValueTexts}

LoadSources ==
    Bodies \cup {Braced(b) : b \in Bodies} \cup {Nested(b) : b \in Bodies}
        \cup {Src_newline_in_quotes} \cup NewlineSeparated

\* where the cached instances stood when an operation began
Before ==
    [scanner_moved |-> sexists /\ spos > 0,
     parser_midway |-> pexists /\ 0 < ppos /\ ppos < Len(tokens)]

\* the cached instances as loads finds them: exists is the test of lines 5
\* and 12
CachedScanner == [exists |-> sexists, source |-> source, pos |-> spos]
CachedParser == [exists |-> pexists, tokens |-> tokens, pos |-> ppos]
NotCached == [exists |-> FALSE, source |-> <<>>, tokens |-> <<>>, pos |-> 0]

\* lines 5-8 and 12-15: the instance is constructed, or reset
loads_scanner(s, cached) ==
    IF cached.exists
    THEN Scanner_reset([source |-> cached.source, pos |-> cached.pos], s)
    ELSE Scanner_init(s)

loads_parser(toks, cached) ==
    IF cached.exists
    THEN Parser_reset([tokens |-> cached.tokens, pos |-> cached.pos], toks)
    ELSE Parser_init(toks)

\* loads(s) (__init__.py:4-17) with the cached instances given: what it
\* returns or raises, and where it leaves the instances
loads(s, scanner, parser) ==
    Let(scan_all(s, loads_scanner(s, scanner).pos), LAMBDA sc :
        IF sc.status # "ok"
        THEN [status |-> "ScanError", spos |-> sc.pos, parsed |-> FALSE,
              tokens |-> <<>>,
              pr |-> Raise("ScanError", [pos |-> 0, heap |-> <<>>, obs |-> {}, calls |-> {}, loops |-> {}])]
        ELSE [status |-> "scanned", spos |-> sc.pos, parsed |-> TRUE,
              tokens |-> sc.tokens,
              pr |-> parse_from(sc.tokens, loads_parser(sc.tokens, parser).pos)])

\* what the caller of loads observes: the exception, or the Document returned
LoadsOutcome(run) ==
    IF ~run.parsed THEN [status |-> "ScanError", doc |-> <<>>]
    ELSE [status |-> run.pr.status,
          doc |-> IF run.pr.status = "ok"
                  THEN Struct(run.pr.st.heap, run.pr.data[1]) ELSE <<>>]

\* loads on fresh instances, as in the first call of a process
loads_fresh(s) ==
    LoadsOutcome(loads(s, NotCached, NotCached))

LoadsFrom(S) ==
    /\ \E s \in S :
        Let(loads(s, CachedScanner, CachedParser), LAMBDA run :
            /\ source' = s
            /\ spos' = run.spos
            /\ sexists' = TRUE
            /\ IF run.parsed
               THEN /\ tokens' = run.tokens
                    /\ ppos' = run.pr.st.pos
                    /\ pexists' = TRUE
                    /\ heap' = run.pr.st.heap
                    /\ nmut' = 0
               ELSE UNCHANGED <<tokens, ppos, pexists, heap, nmut>>
            /\ last' = [op |-> "loads", arg |-> s, before |-> Before,
                        out |-> LoadsOutcome(run)])
    /\ prev' = last.op

Loads == LoadsFrom(LoadSources)

InitLoads ==
    /\ source = <<>>
    /\ spos = 0
    /\ sexists = FALSE
    /\ tokens = <<>>
    /\ ppos = 0
    /\ pexists = FALSE
    /\ heap = <<>>
    /\ last = [op |-> "init"]
    /\ prev = "none"
    /\ nmut = 0

NextLoads == Loads

SpecLoads == InitLoads /\ [][NextLoads]_vars

\* shapes of nodes, as Struct gives them
StringShape(text) == <<"String", text, <<>>>>
ItemShape(key, value) == <<"RecordItem", None, <<StringShape(key), value>>>>

RECURSIVE Contains(_, _)
\* the shape sub occurs in the shape s
Contains(s, sub) ==
    s = sub \/ \E i \in 1..Len(s[3]) : Contains(s[3][i], sub)

\* C4 as stated: loads (scan_all, then parse) of a brace-enclosed list of
\* well-formed items completes without an error, and on `{a b}` it recognizes
\* a as a record key with the value b
C4_BracedInputParses ==
    (last.op = "loads" /\ last.arg \in {Braced(b) : b \in Bodies})
        => /\ last.out.status = "ok"
           /\ last.arg = Braced(Src_bare)
                 => Contains(last.out.doc, ItemShape(<<"a">>, StringShape(<<"b">>)))

\* C4 (amended): a list of well-formed items parses without an error when it
\* is the whole input, written without braces, and when it is written in
\* braces as the value of a key; `a b` gives one item with key a and value b,
\* with no separator between them; the same list in braces as the whole input
\* raises ParseError
C4_ItemsParseBareOrNested ==
    last.op = "loads" =>
        \A b \in Bodies :
            /\ last.arg = b
                  => /\ last.out.status = "ok"
                     /\ last.out.doc[1] = "Document"
                     /\ b = Src_bare
                           => last.out.doc[3]
                                = <<ItemShape(<<"a">>, StringShape(<<"b">>))>>
            /\ last.arg = Nested(b)
                  => /\ last.out.status = "ok"
                     /\ last.out.doc[3]
                          = <<ItemShape(<<"k">>,
                                <<"Record", None, loads_fresh(b).doc[3]>>)>>
            /\ last.arg = Braced(b) => last.out.status = "ParseError"

\* loads of `k {a b}` returned a Document
C4_Witness ==
    /\ last.op = "loads"
    /\ last.arg = Nested(Src_bare)
    /\ last.out.status = "ok"
    /\ Contains(last.out.doc, ItemShape(<<"a">>, StringShape(<<"b">>)))

\* the body that holds the two items of a source of NewlineSeparated
BodyShape(src, doc) ==
    IF src \in {InDocument(v) : v \in ValueTexts} THEN doc ELSE doc[3][1][3][2]

\* C5: two well-formed items on consecutive lines with no comma between them
\* are both recognized as items of the same body, whatever the kind of the
\* first item's value; the first token of the second item carries
\* leading_newline = true
C5_NewlineAloneSeparates ==
    (last.op = "loads" /\ last.arg \in NewlineSeparated)
        => /\ last.out.status = "ok"
           /\ Len(BodyShape(last.arg, last.out.doc)[3]) = 2
           /\ \E i \in 1..Len(tokens) :
                 tokens[i].spelling = <<"c">> /\ tokens[i].leading_newline

----------------------------------------------------------------------------
(* reuse of the cached instances: loads.scanner and loads.parser operated
   directly between calls of loads *)

\* `a b`; a ScanError part-way; `a >x` newline `c d`, a ParseError part-way
ResetSources == {Src_bare, Src_newline_in_quotes, InDocument(<<GT, "x">>)}

\* the token lists a caller gets from scanning those sources
ResetTokens ==
    {scan_all(src, 0).tokens : src \in {x \in ResetSources : scan_all(x, 0).status = "ok"}}

LoadsCached == LoadsFrom(ResetSources)

ScannerReset ==
    /\ sexists
    /\ \E s \in ResetSources :
          Let(Scanner_reset([source |-> source, pos |-> spos], s), LAMBDA scanner :
              /\ source' = scanner.source
              /\ spos' = scanner.pos)
    /\ last' = [op |-> "scanner_reset"]
    /\ prev' = last.op
    /\ UNCHANGED <<sexists, tokens, ppos, pexists, heap, nmut>>

ParserReset ==
    /\ pexists
    /\ \E toks \in ResetTokens :
          Let(Parser_reset([tokens |-> tokens, pos |-> ppos], toks), LAMBDA parser :
              /\ tokens' = parser.tokens
              /\ ppos' = parser.pos)
    /\ last' = [op |-> "parser_reset"]
    /\ prev' = last.op
    /\ UNCHANGED <<source, spos, sexists, pexists, heap, nmut>>

NextReset ==
    LoadsCached \/ ScannerReset \/ ScanOne \/ ScanAll \/ ParserReset \/ Parse

SpecReset == InitLoads /\ [][NextReset]_vars

\* C9: reset(x) followed by scan_all / parse gives the outcome a freshly
\* constructed instance on x gives, whatever was done with the instance
\* before; loads(s) on the cached instances gives the AST or the error that
\* loads(s) gives on fresh ones
C9_ResetIsAsFresh ==
    /\ last.op = "loads" => last.out = loads_fresh(last.arg)
    /\ (last.op = "scan_all" /\ prev = "scanner_reset")
          => last.out = ScanAllOutcome(scan_all(source, Scanner_init(source).pos))
    /\ (last.op = "parse" /\ prev = "parser_reset")
          => last.out = ParseOutcome(tokens,
                            parse_from(tokens, Parser_init(tokens).pos))

\* loads returned a Document from instances that an earlier call had left
\* with the scanner advanced and the parser stopped part-way by a ParseError
C9_Witness ==
    /\ last.op = "loads"
    /\ last.before.scanner_moved
    /\ last.before.parser_midway
    /\ last.out.status = "ok"
    /\ last.out = loads_fresh(last.arg)

----------------------------------------------------------------------------
(* Running to completion: a scanner on a short source text, or a parser on
   a short token list *)

\* longest source text, and longest token list
MaxRunSrc == 3
MaxRunToks == 5

RunChars == {DQ, LF, CR, SP, ",", SEMI, GT, "a"}

RunTokens ==
    {Token("BRACE_OPEN", FALSE, None), Token("BRACE_CLOSE", FALSE, None),
     Token("BRACK_OPEN", FALSE, None), Token("BRACK_CLOSE", FALSE, None),
     Token("COMMA", FALSE, None),
     Token("UNQUOTED_STRING", FALSE, <<"a">>),
     Token("QUOTED_STRING", TRUE, <<"b">>)}

\* nothing constructed yet
InitRun ==
    /\ source = <<>>
    /\ spos = 0
    /\ sexists = FALSE
    /\ tokens = <<>>
    /\ ppos = 0
    /\ pexists = FALSE
    /\ heap = <<>>
    /\ last = [op |-> "init"]
    /\ prev = "none"
    /\ nmut = 0

\* Scanner(src)
NewScanner ==
    /\ ~sexists /\ ~pexists
    /\ \E src \in SeqsUpTo(RunChars, MaxRunSrc) :
          /\ source' = Scanner_init(src).source
          /\ spos' = Scanner_init(src).pos
    /\ sexists' = TRUE
    /\ last' = [op |-> "Scanner"]
    /\ prev' = last.op
    /\ UNCHANGED <<tokens, ppos, pexists, heap, nmut>>

\* Parser(toks)
NewParser ==
    /\ ~sexists /\ ~pexists
    /\ \E toks \in SeqsUpTo(RunTokens, MaxRunToks) :
          /\ tokens' = Parser_init(toks).tokens
          /\ ppos' = Parser_init(toks).pos
    /\ pexists' = TRUE
    /\ last' = [op |-> "Parser"]
    /\ prev' = last.op
    /\ UNCHANGED <<source, spos, sexists, heap, nmut>>

NextRun == NewScanner \/ NewParser \/ ScanOne \/ ScanAll \/ Parse

SpecRun == InitRun /\ [][NextRun]_vars

\* C13: a scan_one that returns a token leaves the cursor strictly further
\* on, and the cursor never passes the end of the source, so scan_all makes
\* at most one iteration per character: it returns the token list with the
\* cursor at the end of the source, or raises ScanError.  parse returns a
\* Document or raises ParseError, and every iteration of a content loop that
\* did not break left the cursor strictly further on, also when the
\* separator was a leading_newline flag, so the loops make at most one
\* iteration per token.
C13_RunsToCompletion ==
    /\ spos <= Len(source)
    /\ (last.op = "scan_one" /\ last.status = "token") => spos > last.from
    /\ last.op = "scan_all" =>
          \/ /\ last.out.status = "ok"
             /\ spos = Len(source)
             /\ Len(last.out.tokens) <= Len(source) - last.from
          \/ last.out.status = "ScanError"
    /\ last.op = "parse" =>
          /\ last.out.status \in {"ok", "ParseError"}
          /\ ppos <= Len(tokens)
          /\ \A it \in last.out.loops : it.exit > it.entry
          /\ Cardinality(last.out.loops) <= Len(tokens)

\* parse returned a Document after an array content loop took a
\* leading_newline flag as the separator and went on to the next value
C13_Witness ==
    /\ last.op = "parse"
    /\ last.out.status = "ok"
    /\ \E it \in last.out.loops :
          /\ it.name = "parse_array_content"
          /\ ~it.comma
          /\ it.exit = it.entry + 1

====
